---- MODULE Spec2Model ----
(***************************************************************************)
(* A model of legit: the object database (src/src/object_database.rs) and  *)
(* the commit command (src/src/main.rs).                                   *)
(*                                                                         *)
(* Byte strings are sequences of naturals in 0..255.  An optional value    *)
(* (Option<T>, a file that may not exist) is a sequence of length 0 or 1.  *)
(* A failing file-system call is modelled as returning Err and leaving     *)
(* its target as it was.                                                   *)
(***************************************************************************)
EXTENDS Naturals, Sequences, FiniteSets, TLC

VARIABLES
  worktree,     \* files under test/repo outside .git: path -> contents
  db,           \* .git/objects: [dirs, files]
  head,         \* .git/HEAD: <<>> (no file) or <<contents>>
  pc,           \* position of do_commit
  paths,        \* do_commit: paths
  blobs,        \* do_commit: blobs
  entries,      \* do_commit: entries
  idx,          \* do_commit: position of the running iterator
  tree,         \* do_commit: tree, <<>> before it is built
  commit,       \* do_commit: commit, <<>> before it is built
  runs,         \* number of do_commit invocations started
  head0,        \* history: HEAD when the running do_commit started
  written,      \* history: objects whose write_object returned Ok
  head_commit,  \* history: <<[commit, tree, blobs]>> behind the last HEAD write
  calls,        \* number of direct write_object calls made
  last,         \* history: the last direct write_object call
  op,           \* the last library function called directly
  arg,          \* its argument
  ret           \* its outcome

vars == <<worktree, db, head, pc, paths, blobs, entries, idx, tree, commit,
          runs, head0, written, head_commit, calls, last, op, arg, ret>>

commit_vars == <<worktree, head, pc, paths, blobs, entries, idx, tree, commit,
                 runs, head0, written, head_commit>>

db_vars == <<calls, last>>

call_vars == <<op, arg, ret>>

-----------------------------------------------------------------------------
(* Bounds of the model *)

MaxRuns == 1        \* invocations of do_commit in one behaviour
MaxCalls == 2       \* direct write_object calls in one behaviour
MaxLen == 3         \* longest payload of a blob handed to serialize/deserialize
MaxDeclared == 4    \* largest declared length of a hand-made frame
MaxMsgLen == 42     \* longest run of plain characters in a commit message

(* Program constants *)

DigestLen == 20     \* struct ObjectId([u8; 20])
FileMode == 100644  \* Entry::new: mode
SummaryLimit == 40  \* message_summary: unwrap_or(40).min(40)
NUL == 0
SP == 32
NL == 10

-----------------------------------------------------------------------------
(* Text *)

RECURSIVE Dec(_)
Dec(n) == IF n < 10 THEN <<48 + n>> ELSE Dec(n \div 10) \o <<48 + (n % 10)>>

HexDigit(d) == IF d < 10 THEN 48 + d ELSE 87 + d

RECURSIVE Rep(_, _)
Rep(b, n) == IF n = 0 THEN <<>> ELSE <<b>> \o Rep(b, n - 1)

RECURSIVE Find(_, _, _)
Find(bytes, b, from) ==
  IF from > Len(bytes) THEN 0
  ELSE IF bytes[from] = b THEN from
  ELSE Find(bytes, b, from + 1)

RECURSIVE SeqsUpTo(_, _)
SeqsUpTo(S, n) ==
  IF n = 0 THEN {<<>>}
  ELSE LET shorter == SeqsUpTo(S, n - 1)
       IN shorter \cup {Append(s, x) : s \in shorter, x \in S}

Perms(S) ==
  {p \in [1..Cardinality(S) -> S] : \A x \in S : \E i \in DOMAIN p : p[i] = x}

Str_blob == <<98, 108, 111, 98>>
Str_tree == <<116, 114, 101, 101>>
Str_commit == <<99, 111, 109, 109, 105, 116>>
Str_author == <<97, 117, 116, 104, 111, 114>>
Str_indent == <<SP, SP, SP, SP, SP, SP>>
Str_utc == <<43, 48, 48, 48, 48>>

-----------------------------------------------------------------------------
(* ObjectId *)

RECURSIVE LaneSum(_, _)
LaneSum(bytes, j) ==
  IF j > Len(bytes) THEN 0
  ELSE bytes[j] * (2 * ((j - 1) \div DigestLen) + 1) + LaneSum(bytes, j + DigestLen)

(* A stand-in for SHA-1: a DigestLen-byte value that depends on every byte *)
(* of the input and on its length.                                         *)
RECURSIVE Lanes(_, _)
Lanes(bytes, i) ==
  IF i > DigestLen THEN <<>>
  ELSE <<(Len(bytes) + LaneSum(bytes, i)) % 256>> \o Lanes(bytes, i + 1)

digest(bytes) == Lanes(bytes, 1)

RECURSIVE as_hex(_)
as_hex(id) ==
  IF id = <<>> THEN <<>>
  ELSE <<HexDigit(Head(id) \div 16), HexDigit(Head(id) % 16)>> \o as_hex(Tail(id))

-----------------------------------------------------------------------------
(* Blob *)

Blob_new(contents) == [kind |-> "blob", contents |-> contents]

Blob_serialize(blob) ==
  Str_blob \o <<SP>> \o Dec(Len(blob.contents)) \o <<NUL>> \o blob.contents

(* Blob::deserialize as it would be were nth(0) taken: the piece before   *)
(* the first NUL.                                                        *)
Blob_deserialize_header(bytes) ==
  LET first == Find(bytes, NUL, 1)
  IN IF first = 0
     THEN [kind |-> "ok", value |-> Blob_new(bytes)]
     ELSE [kind |-> "ok", value |-> Blob_new(SubSeq(bytes, 1, first - 1))]

(* bytes.split(|b| *b == 0).nth(1): the piece between the first and the   *)
(* second NUL, or up to the end when there is no second one.             *)
Blob_deserialize(bytes) ==
  LET first == Find(bytes, NUL, 1)
      second == Find(bytes, NUL, first + 1)
      stop == IF second = 0 THEN Len(bytes) ELSE second - 1
  IN IF first = 0
     THEN [kind |-> "err", error |-> "ERROR"]
     ELSE [kind |-> "ok", value |-> Blob_new(SubSeq(bytes, first + 1, stop))]

-----------------------------------------------------------------------------
(* Entry and Tree *)

Entry_new(path, object_id) ==
  [mode |-> FileMode, path |-> path, object_id |-> object_id]

Tree_new(ents) == [kind |-> "tree", entries |-> ents]

Entry_bytes(entry) ==
  Dec(entry.mode) \o <<SP>> \o entry.path \o <<NUL>> \o entry.object_id

RECURSIVE Flatten(_)
Flatten(seqs) == IF seqs = <<>> THEN <<>> ELSE Head(seqs) \o Flatten(Tail(seqs))

Tree_serialize(t) ==
  LET bytes == Flatten([i \in DOMAIN t.entries |-> Entry_bytes(t.entries[i])])
  IN Str_tree \o <<SP>> \o Dec(Len(bytes)) \o <<NUL>> \o bytes

Tree_deserialize(bytes) == [kind |-> "panic"]

-----------------------------------------------------------------------------
(* Contributor and Commit *)

Contributor_new(name, email) == [name |-> name, email |-> email]

Contributor_fmt(c) == c.name \o <<SP, 60>> \o c.email \o <<62>>

(* DateTime<Utc>::format("%s %z") *)
Time_fmt(t) == Dec(t) \o <<SP>> \o Str_utc

Commit_new(author, authored_at, committer, committed_at, message, tree_object_id) ==
  [kind |-> "commit", author |-> author, authored_at |-> authored_at,
   committer |-> committer, committed_at |-> committed_at,
   message |-> message, tree_object_id |-> tree_object_id]

IsCharBoundary(s, n) ==
  \/ n = 0
  \/ n = Len(s)
  \/ n < Len(s) /\ ~(s[n + 1] >= 128 /\ s[n + 1] < 192)

message_summary(c) ==
  LET found == Find(c.message, NL, 1)
      at == IF found = 0 THEN SummaryLimit ELSE found - 1
      len == IF at < SummaryLimit THEN at ELSE SummaryLimit
  IN IF len > Len(c.message) \/ ~IsCharBoundary(c.message, len)
     THEN [kind |-> "panic"]
     ELSE [kind |-> "ok", value |-> SubSeq(c.message, 1, len)]

Commit_serialize(c) ==
  LET bytes ==
        Str_tree \o <<SP>> \o as_hex(c.tree_object_id) \o <<NL>>
        \o Str_indent \o Str_author \o <<SP>> \o Contributor_fmt(c.author)
        \o <<SP>> \o Time_fmt(c.authored_at) \o <<NL>>
        \o Str_indent \o Str_commit \o <<SP>> \o Contributor_fmt(c.committer)
        \o <<SP>> \o Time_fmt(c.committed_at) \o <<NL>>
        \o Str_indent \o c.message
  IN Str_commit \o <<SP>> \o Dec(Len(bytes)) \o <<NUL>> \o bytes

Commit_deserialize(bytes) == [kind |-> "panic"]

-----------------------------------------------------------------------------
(* Object *)

serialize(object) ==
  CASE object.kind = "blob" -> Blob_serialize(object)
    [] object.kind = "tree" -> Tree_serialize(object)
    [] object.kind = "commit" -> Commit_serialize(object)

object_id(object) == digest(serialize(object))

-----------------------------------------------------------------------------
(* ObjectDatabase *)

ObjectDatabase_new == [dirs |-> {}, files |-> [p \in {} |-> <<>>]]

split_at(s, n) == <<SubSeq(s, 1, n), SubSeq(s, n + 1, Len(s))>>

fs_write(files, path, contents) ==
  [p \in DOMAIN files \cup {path} |-> IF p = path THEN contents ELSE files[p]]

IoOutcomes == {"ok", "create_dir_all fails", "write fails"}

(* write_object as it would be were the file named by the whole hex id *)
write_object_whole_name(odb, object, io) ==
  LET hex == as_hex(object_id(object))
      dir_name == split_at(hex, 2)[1]
  IN CASE io = "create_dir_all fails" -> [db |-> odb, result |-> "Err"]
       [] io = "write fails" ->
            [db |-> [odb EXCEPT !.dirs = @ \cup {dir_name}], result |-> "Err"]
       [] io = "ok" ->
            [db |-> [dirs |-> odb.dirs \cup {dir_name},
                     files |-> fs_write(odb.files, <<dir_name, hex>>,
                                        serialize(object))],
             result |-> "Ok"]

(* write_object as it would be were the file opened for appending *)
write_object_append(odb, object, io) ==
  LET hex == as_hex(object_id(object))
      dir_name == split_at(hex, 2)[1]
      file_name == split_at(hex, 2)[2]
      path == <<dir_name, file_name>>
      old == IF path \in DOMAIN odb.files THEN odb.files[path] ELSE <<>>
  IN CASE io = "create_dir_all fails" -> [db |-> odb, result |-> "Err"]
       [] io = "write fails" ->
            [db |-> [odb EXCEPT !.dirs = @ \cup {dir_name}], result |-> "Err"]
       [] io = "ok" ->
            [db |-> [dirs |-> odb.dirs \cup {dir_name},
                     files |-> fs_write(odb.files, path, old \o serialize(object))],
             result |-> "Ok"]

(* io is what the file system does to this call *)
write_object(odb, object, io) ==
  LET hex == as_hex(object_id(object))
      dir_name == split_at(hex, 2)[1]
      file_name == split_at(hex, 2)[2]
  IN CASE io = "create_dir_all fails" -> [db |-> odb, result |-> "Err"]
       [] io = "write fails" ->
            [db |-> [odb EXCEPT !.dirs = @ \cup {dir_name}], result |-> "Err"]
       [] io = "ok" ->
            [db |-> [dirs |-> odb.dirs \cup {dir_name},
                     files |-> fs_write(odb.files, <<dir_name, file_name>>,
                                        serialize(object))],
             result |-> "Ok"]

-----------------------------------------------------------------------------
(* The working tree and the clock: the inputs of do_commit *)

FileNames == {<<97>>, <<98>>}

FileContents == {<<>>, <<97>>}

WorkTrees == UNION {[S -> FileContents] : S \in SUBSET FileNames}

Times == {0, 1}

Str_name ==
  <<77, 97, 114, 116, 105, 110, 32, 83, 195, 182, 100, 101, 114, 109, 97, 110>>

Str_email ==
  <<107, 110, 103, 114, 101, 107, 116, 111, 114, 64, 103, 109, 97, 105, 108,
    46, 99, 111, 109>>

Str_message ==
  <<86, 195, 164, 108, 100, 105, 103, 116, 32, 99, 111, 111, 108, 116, 32,
    109, 101, 100, 100, 101, 108, 97, 110, 100, 101, 110, 33>>

Exited == {"Ok", "Err", "panic"}

-----------------------------------------------------------------------------
(* do_commit, one action per file-system call *)

(* WalkDir::new(get_cwd()), filtered and collected; the walk yields the    *)
(* files in the order the file system lists them.                          *)
Walk ==
  /\ pc \in Exited \cup {"none"}
  /\ runs < MaxRuns
  /\ \E wt \in WorkTrees, ok \in BOOLEAN :
       \E order \in Perms(DOMAIN wt) :
         /\ worktree' = wt
         /\ paths' = IF ok THEN order ELSE <<>>
         /\ pc' = IF ok THEN "read" ELSE "panic"
  /\ runs' = runs + 1
  /\ head0' = head
  /\ blobs' = <<>>
  /\ entries' = <<>>
  /\ idx' = 1
  /\ tree' = <<>>
  /\ commit' = <<>>
  /\ UNCHANGED <<db, head, written, head_commit, db_vars, call_vars>>

(* one std::fs::read(path).unwrap() of the blobs iterator *)
ReadFile ==
  /\ pc = "read"
  /\ idx <= Len(paths)
  /\ \E ok \in BOOLEAN :
       IF ok
       THEN /\ blobs' = Append(blobs, Blob_new(worktree[paths[idx]]))
            /\ idx' = idx + 1
            /\ pc' = pc
       ELSE /\ pc' = "panic"
            /\ UNCHANGED <<blobs, idx>>
  /\ UNCHANGED <<worktree, db, head, paths, entries, tree, commit, runs, head0,
                 written, head_commit, db_vars, call_vars>>

(* paths.iter().zip(blobs.iter()).map(..).collect() *)
MakeEntries ==
  /\ pc = "read"
  /\ idx > Len(paths)
  /\ entries' = [i \in DOMAIN paths |-> Entry_new(paths[i], object_id(blobs[i]))]
  /\ idx' = 1
  /\ pc' = "write_blobs"
  /\ UNCHANGED <<worktree, db, head, paths, blobs, tree, commit, runs, head0,
                 written, head_commit, db_vars, call_vars>>

(* one object_database.write_object(&blob)? of the for loop *)
WriteBlob ==
  /\ pc = "write_blobs"
  /\ idx <= Len(blobs)
  /\ \E io \in IoOutcomes :
       LET r == write_object(db, blobs[idx], io)
       IN /\ db' = r.db
          /\ IF r.result = "Ok"
             THEN /\ written' = written \cup {blobs[idx]}
                  /\ idx' = idx + 1
                  /\ pc' = pc
             ELSE /\ pc' = "Err"
                  /\ UNCHANGED <<written, idx>>
  /\ UNCHANGED <<worktree, head, paths, blobs, entries, tree, commit, runs,
                 head0, head_commit, db_vars, call_vars>>

(* WriteTree as it would be were the tree written while blobs are still   *)
(* waiting to be written.                                                *)
WriteTreeEarly ==
  /\ pc = "write_blobs"
  /\ tree' = <<Tree_new(entries)>>
  /\ \E io \in IoOutcomes :
       LET r == write_object(db, Tree_new(entries), io)
       IN /\ db' = r.db
          /\ IF r.result = "Ok"
             THEN /\ written' = written \cup {Tree_new(entries)}
                  /\ pc' = "write_commit"
             ELSE /\ pc' = "Err"
                  /\ UNCHANGED written
  /\ UNCHANGED <<worktree, head, paths, blobs, entries, idx, commit, runs,
                 head0, head_commit, db_vars, call_vars>>

(* Tree::new(entries); object_database.write_object(&tree)? *)
WriteTree ==
  /\ pc = "write_blobs"
  /\ idx > Len(blobs)
  /\ tree' = <<Tree_new(entries)>>
  /\ \E io \in IoOutcomes :
       LET r == write_object(db, Tree_new(entries), io)
       IN /\ db' = r.db
          /\ IF r.result = "Ok"
             THEN /\ written' = written \cup {Tree_new(entries)}
                  /\ pc' = "write_commit"
             ELSE /\ pc' = "Err"
                  /\ UNCHANGED written
  /\ UNCHANGED <<worktree, head, paths, blobs, entries, idx, commit, runs,
                 head0, head_commit, db_vars, call_vars>>

(* WriteCommit as it would be were the result of write_object dropped    *)
(* instead of returned with the ? operator.                              *)
WriteCommitUnchecked ==
  /\ pc = "write_commit"
  /\ \E authored_at \in Times, committed_at \in Times, io \in IoOutcomes :
       LET c == Commit_new(Contributor_new(Str_name, Str_email), authored_at,
                           Contributor_new(Str_name, Str_email), committed_at,
                           Str_message, object_id(tree[1]))
           r == write_object(db, c, io)
       IN /\ commit' = <<c>>
          /\ db' = r.db
          /\ pc' = "write_head"
          /\ written' = IF r.result = "Ok" THEN written \cup {c} ELSE written
  /\ UNCHANGED <<worktree, head, paths, blobs, entries, idx, tree, runs, head0,
                 head_commit, db_vars, call_vars>>

(* Commit { .. }; object_database.write_object(&commit)? *)
WriteCommit ==
  /\ pc = "write_commit"
  /\ \E authored_at \in Times, committed_at \in Times, io \in IoOutcomes :
       LET c == Commit_new(Contributor_new(Str_name, Str_email), authored_at,
                           Contributor_new(Str_name, Str_email), committed_at,
                           Str_message, object_id(tree[1]))
           r == write_object(db, c, io)
       IN /\ commit' = <<c>>
          /\ db' = r.db
          /\ IF r.result = "Ok"
             THEN /\ written' = written \cup {c}
                  /\ pc' = "write_head"
             ELSE /\ pc' = "Err"
                  /\ UNCHANGED written
  /\ UNCHANGED <<worktree, head, paths, blobs, entries, idx, tree, runs, head0,
                 head_commit, db_vars, call_vars>>

(* std::fs::write(".git/HEAD", commit.object_id().as_hex())?; println!; Ok(()) *)
WriteHead ==
  /\ pc = "write_head"
  /\ \E ok \in BOOLEAN :
       IF ok
       THEN /\ head' = <<as_hex(object_id(commit[1]))>>
            /\ head_commit' = <<[commit |-> commit[1], tree |-> tree[1],
                                 blobs |-> blobs]>>
            /\ pc' = "Ok"
       ELSE /\ pc' = "Err"
            /\ UNCHANGED <<head, head_commit>>
  /\ UNCHANGED <<worktree, db, paths, blobs, entries, idx, tree, commit, runs,
                 head0, written, db_vars, call_vars>>

do_commit ==
  \/ Walk
  \/ ReadFile
  \/ MakeEntries
  \/ WriteBlob
  \/ WriteTree
  \/ WriteCommit
  \/ WriteHead

NoCall == /\ op = "none" /\ arg = [type |-> "none"] /\ ret = [kind |-> "none"]

NoDirectWrite == /\ calls = 0 /\ last = <<>>

NoCommitRun ==
  /\ worktree = [p \in {} |-> <<>>]
  /\ head = <<>>
  /\ pc = "none"
  /\ paths = <<>>
  /\ blobs = <<>>
  /\ entries = <<>>
  /\ idx = 1
  /\ tree = <<>>
  /\ commit = <<>>
  /\ runs = 0
  /\ head0 = <<>>
  /\ written = {}
  /\ head_commit = <<>>

(* The repository as do_init leaves it: no object, no HEAD *)
Init ==
  /\ NoCommitRun
  /\ db = ObjectDatabase_new
  /\ NoDirectWrite
  /\ NoCall

Next == do_commit

Spec == Init /\ [][Next]_vars

-----------------------------------------------------------------------------
(* Properties of do_commit *)

object_path(id) == split_at(as_hex(id), 2)

Stored(id) == object_path(id) \in DOMAIN db.files

StoredAs(object) ==
  /\ Stored(object_id(object))
  /\ db.files[object_path(object_id(object))] = serialize(object)

(* The commit behind HEAD is whole: HEAD is its hex id, its bytes, the     *)
(* bytes of its tree and the bytes of every blob the tree names are files  *)
(* of the store.                                                           *)
HeadIsWhole ==
  LET hc == head_commit[1]
  IN /\ head_commit # <<>>
     /\ head[1] = as_hex(object_id(hc.commit))
     /\ StoredAs(hc.commit)
     /\ hc.commit.tree_object_id = object_id(hc.tree)
     /\ StoredAs(hc.tree)
     /\ Len(hc.tree.entries) = Len(hc.blobs)
     /\ \A i \in DOMAIN hc.tree.entries :
          /\ hc.tree.entries[i].object_id = object_id(hc.blobs[i])
          /\ StoredAs(hc.blobs[i])

(* C1: a do_commit that failed (a write_object or the HEAD write returned  *)
(* Err, or the walk or a read panicked) left HEAD as it found it; and      *)
(* whenever HEAD exists, which only do_commit brings about, it names a     *)
(* commit that is whole in the store.                                      *)
C1_FailureLeavesHead ==
  /\ pc \in {"Err", "panic"} => head = head0
  /\ head # <<>> => HeadIsWhole

(* do_commit returned Ok for a working tree of two files and set HEAD *)
C1_Witness ==
  /\ pc = "Ok"
  /\ Len(blobs) = 2
  /\ head # head0

(* C2: objects are written children first: the store never holds a tree    *)
(* one of whose entries names an object with no file, nor a commit whose   *)
(* tree has no file, and HEAD never names a commit that has no file.       *)
C2_ChildrenFirst ==
  /\ \A o \in written :
       /\ o.kind = "tree" => \A i \in DOMAIN o.entries : Stored(o.entries[i].object_id)
       /\ o.kind = "commit" => Stored(o.tree_object_id)
  /\ head # <<>> => split_at(head[1], 2) \in DOMAIN db.files

(* two blobs, their tree and the commit are written; HEAD is not yet *)
C2_Witness ==
  /\ pc = "write_head"
  /\ Len(entries) = 2
  /\ entries[1].object_id # entries[2].object_id
  /\ head = head0

-----------------------------------------------------------------------------
(* write_object called directly, on any object and any store it has built *)

Me == Contributor_new(Str_name, Str_email)

DbBlobs == {Blob_new(c) : c \in FileContents}

DbTrees ==
  {Tree_new(<<>>)} \cup {Tree_new(<<Entry_new(<<97>>, object_id(b))>>) : b \in DbBlobs}

DbCommits == {Commit_new(Me, 0, Me, 0, Str_message, object_id(t)) : t \in DbTrees}

DbObjects == DbBlobs \cup DbTrees \cup DbCommits

WriteObjectCall ==
  /\ calls < MaxCalls
  /\ \E object \in DbObjects, io \in IoOutcomes :
       LET r == write_object(db, object, io)
       IN /\ db' = r.db
          /\ last' = <<[object |-> object, io |-> io, before |-> db,
                        result |-> r.result]>>
  /\ calls' = calls + 1
  /\ UNCHANGED <<commit_vars, call_vars>>

NextDb == WriteObjectCall

SpecDb == Init /\ [][NextDb]_vars

(* C3: a write_object that returned Ok created or replaced the one file    *)
(* <first 2 hex characters of the id>/<the other 38>, that file holds the  *)
(* object's serialization, and every other file is as it was.              *)
C3_WriteOneFile ==
  last # <<>> /\ last[1].result = "Ok" =>
    LET l == last[1]
        hex == as_hex(object_id(l.object))
        path == <<SubSeq(hex, 1, 2), SubSeq(hex, 3, 40)>>
    IN /\ Len(hex) = 40
       /\ Len(path[2]) = 38
       /\ DOMAIN db.files = DOMAIN l.before.files \cup {path}
       /\ db.files[path] = serialize(l.object)
       /\ \A q \in DOMAIN l.before.files \ {path} : db.files[q] = l.before.files[q]

(* a write that returned Ok added a second file to the store *)
C3_Witness ==
  /\ last # <<>>
  /\ last[1].result = "Ok"
  /\ Cardinality(DOMAIN last[1].before.files) = 1
  /\ Cardinality(DOMAIN db.files) = 2

(* C4: writing an object whose serialization the store already holds, the  *)
(* file system permitting, returns Ok and leaves the store, its set of     *)
(* files and the contents of each, as it was.                              *)
C4_Idempotent ==
  \A i \in DOMAIN last :
    (/\ last[i].io = "ok"
     /\ \E p \in DOMAIN last[i].before.files :
          last[i].before.files[p] = serialize(last[i].object))
    => /\ last[i].result = "Ok"
       /\ db = last[i].before

(* an object was written a second time *)
C4_Witness ==
  /\ last # <<>>
  /\ last[1].result = "Ok"
  /\ db.files # [p \in {} |-> <<>>]
  /\ db = last[1].before

-----------------------------------------------------------------------------
(* The library functions called directly, on inputs drawn from bounded sets *)

PayloadBytes == {NUL, 97}

Payloads == SeqsUpTo(PayloadBytes, MaxLen)

(* byte strings shaped like a frame, or like the start of one *)
Frames ==
  {tag \o <<SP>> \o Dec(n) \o rest :
     tag \in {Str_blob, Str_tree, Str_commit},
     n \in 0..MaxDeclared,
     rest \in {<<>>} \cup {<<NUL>> \o p : p \in Payloads}}

TreeNames == {<<97>>, <<97, 98>>, <<98>>}

ChildIds == {object_id(b) : b \in DbBlobs}

(* a set of entries with unique names, in two orders *)
EntryPairs ==
  UNION {
    {[a |-> [i \in DOMAIN p |-> Entry_new(p[i], f[p[i]])],
      b |-> [i \in DOMAIN q |-> Entry_new(q[i], f[q[i]])]] :
       f \in [S -> ChildIds], p \in Perms(S), q \in Perms(S)} :
    S \in SUBSET TreeNames}

Messages ==
  {Rep(97, k) \o rest :
     k \in 0..MaxMsgLen,
     rest \in {<<>>, <<NL>>, <<NL, 98>>, <<195, 182>>}}

Contributors == {Me, Contributor_new(<<97>>, <<98>>)}

Commits ==
  {Commit_new(author, authored_at, committer, committed_at, message,
              object_id(Tree_new(<<>>))) :
     author \in Contributors, authored_at \in Times,
     committer \in Contributors, committed_at \in Times,
     message \in Messages}

Inputs ==
  {[type |-> "contents", bytes |-> b] : b \in Payloads}
  \cup {[type |-> "bytes", bytes |-> b] : b \in Frames}
  \cup {[type |-> "entries", a |-> e.a, b |-> e.b] : e \in EntryPairs}
  \cup {[type |-> "commit", commit |-> c] : c \in Commits}

InitObj ==
  /\ NoCommitRun
  /\ db = ObjectDatabase_new
  /\ NoDirectWrite
  /\ op = "none"
  /\ ret = [kind |-> "none"]
  /\ arg \in Inputs

Ok(v) == [kind |-> "ok", value |-> v]

CallBlobRoundTrip ==
  /\ op = "none"
  /\ arg.type = "contents"
  /\ op' = "Blob::deserialize(Blob::new(b).serialize())"
  /\ ret' = Blob_deserialize(Blob_serialize(Blob_new(arg.bytes)))
  /\ UNCHANGED <<commit_vars, db, db_vars, arg>>

CallBlobDeserialize ==
  /\ op = "none"
  /\ arg.type = "bytes"
  /\ op' = "Blob::deserialize"
  /\ ret' = Blob_deserialize(arg.bytes)
  /\ UNCHANGED <<commit_vars, db, db_vars, arg>>

CallTreeDeserialize ==
  /\ op = "none"
  /\ arg.type = "bytes"
  /\ op' = "Tree::deserialize"
  /\ ret' = Tree_deserialize(arg.bytes)
  /\ UNCHANGED <<commit_vars, db, db_vars, arg>>

CallCommitDeserialize ==
  /\ op = "none"
  /\ arg.type = "bytes"
  /\ op' = "Commit::deserialize"
  /\ ret' = Commit_deserialize(arg.bytes)
  /\ UNCHANGED <<commit_vars, db, db_vars, arg>>

(* Tree::new on each of the two orders, then serialize and object_id *)
CallTreeNew ==
  /\ op = "none"
  /\ arg.type = "entries"
  /\ op' = "Tree::new"
  /\ ret' = Ok([a |-> [bytes |-> serialize(Tree_new(arg.a)),
                       id |-> object_id(Tree_new(arg.a))],
                b |-> [bytes |-> serialize(Tree_new(arg.b)),
                       id |-> object_id(Tree_new(arg.b))]])
  /\ UNCHANGED <<commit_vars, db, db_vars, arg>>

CallMessageSummary ==
  /\ op = "none"
  /\ arg.type = "commit"
  /\ op' = "Commit::message_summary"
  /\ ret' = message_summary(arg.commit)
  /\ UNCHANGED <<commit_vars, db, db_vars, arg>>

CallCommitSerialize ==
  /\ op = "none"
  /\ arg.type = "commit"
  /\ op' = "Commit::serialize"
  /\ ret' = Ok(serialize(arg.commit))
  /\ UNCHANGED <<commit_vars, db, db_vars, arg>>

NextObj ==
  \/ CallBlobRoundTrip
  \/ CallBlobDeserialize
  \/ CallTreeDeserialize
  \/ CallCommitDeserialize
  \/ CallTreeNew
  \/ CallMessageSummary
  \/ CallCommitSerialize

SpecObj == InitObj /\ [][NextObj]_vars

-----------------------------------------------------------------------------
(* Properties of the library functions *)

HasNul(bytes) == Find(bytes, NUL, 1) # 0

AfterFirstNul(bytes) == SubSeq(bytes, Find(bytes, NUL, 1) + 1, Len(bytes))

(* C6: a blob whose contents hold no NUL byte, the empty one included,     *)
(* comes back from deserialize(serialize(..)) with the same contents.      *)
C6_BlobRoundTrip ==
  op = "Blob::deserialize(Blob::new(b).serialize())" /\ ~HasNul(arg.bytes) =>
    /\ ret.kind = "ok"
    /\ ret.value.contents = arg.bytes

(* contents of two bytes without a NUL went through the round trip *)
C6_Witness ==
  /\ op = "Blob::deserialize(Blob::new(b).serialize())"
  /\ ~HasNul(arg.bytes)
  /\ Len(arg.bytes) = 2
  /\ ret.kind = "ok"

(* C7: Blob::deserialize returns an error for an input without a NUL, with *)
(* a kind other than blob or with a declared length that is not the number *)
(* of bytes after the first NUL; and what it returns on success is all the *)
(* bytes after the first NUL.                                              *)
C7_DeclaredLengthRules ==
  op = "Blob::deserialize" =>
    LET rest == AfterFirstNul(arg.bytes)
        framed == Str_blob \o <<SP>> \o Dec(Len(rest)) \o <<NUL>> \o rest
    IN /\ ~HasNul(arg.bytes) => ret.kind = "err"
       /\ arg.bytes # framed => ret.kind = "err"
       /\ ret.kind = "ok" => ret.value.contents = rest

RECURSIVE BytesLess(_, _)
BytesLess(x, y) ==
  IF y = <<>> THEN FALSE
  ELSE IF x = <<>> THEN TRUE
  ELSE IF Head(x) # Head(y) THEN Head(x) < Head(y)
  ELSE BytesLess(Tail(x), Tail(y))

Ascending(ents) ==
  \A i \in DOMAIN ents, j \in DOMAIN ents :
    i < j => BytesLess(ents[i].path, ents[j].path)

(* C5: the two orders of one set of entries give trees with equal bytes    *)
(* and equal ids, the entries encoded in ascending order of their names.   *)
C5_TreeOrderIndependent ==
  op = "Tree::new" =>
    /\ ret.value.a.bytes = ret.value.b.bytes
    /\ ret.value.a.id = ret.value.b.id
    /\ \E e \in EntryPairs :
         /\ Ascending(e.a)
         /\ {e.a[i] : i \in DOMAIN e.a} = {arg.a[i] : i \in DOMAIN arg.a}
         /\ ret.value.a.bytes = Tree_serialize(Tree_new(e.a))

Min(x, y) == IF x < y THEN x ELSE y

(* C8: message_summary returns, without failing, the message up to its     *)
(* first newline or its first SummaryLimit bytes, whichever ends first; a  *)
(* shorter message without a newline whole.                                *)
C8_SummaryIsPrefix ==
  op = "Commit::message_summary" =>
    LET m == arg.commit.message
        nl == Find(m, NL, 1)
        line == IF nl = 0 THEN Len(m) ELSE nl - 1
    IN /\ ret.kind = "ok"
       /\ ret.value = SubSeq(m, 1, Min(line, SummaryLimit))

Str_committer == <<99, 111, 109, 109, 105, 116, 116, 101, 114>>

(* C9: the payload of a serialized commit is the lines tree, author and    *)
(* committer, a blank line and the message, joined by single newlines,     *)
(* behind the header "commit <payload length>\0".                          *)
C9_CommitPayload ==
  op = "Commit::serialize" =>
    LET c == arg.commit
        payload ==
          Str_tree \o <<SP>> \o as_hex(c.tree_object_id) \o <<NL>>
          \o Str_author \o <<SP>> \o Contributor_fmt(c.author)
          \o <<SP>> \o Time_fmt(c.authored_at) \o <<NL>>
          \o Str_committer \o <<SP>> \o Contributor_fmt(c.committer)
          \o <<SP>> \o Time_fmt(c.committed_at) \o <<NL>>
          \o <<NL>> \o c.message
    IN ret.value = Str_commit \o <<SP>> \o Dec(Len(payload)) \o <<NUL>> \o payload

(* C10: Tree::deserialize and Commit::deserialize return an error value,   *)
(* NotImplemented, on every input; they neither crash nor build an object. *)
C10_DeserializeTotal ==
  op \in {"Tree::deserialize", "Commit::deserialize"} =>
    /\ ret.kind = "err"
    /\ ret.error = "NotImplemented"

====
